---- MODULE Spec2Model ----
(***************************************************************************)
(* Model of the badapple-pdf encoder (src/encoder/src/main.rs):            *)
(*   main -> parse_args -> encode_video_blob_via_ffmpeg -> fs::read(audio) *)
(*        -> make_pdf                                                      *)
(* together with the ffmpeg child process that feeds the encoder through a *)
(* bounded pipe, and the pure helpers pack_bits / xor_bytes_inplace.       *)
(*                                                                         *)
(* Conventions                                                             *)
(*   - bytes are integers 0..255, byte strings are sequences of bytes;     *)
(*   - Option<u32> is <<>> (None) or <<m>> (Some(m));                      *)
(*   - the f32 frame rate is carried in thousandths (30000 = 30.0), and    *)
(*     fps * 100.0 is therefore the exact rational fps / 10;               *)
(*   - Rust 0-based indexes i appear as i + 1 in sequences.                *)
(***************************************************************************)
EXTENDS Integers, Sequences, FiniteSets, TLC

VARIABLES
    argv,         \* command line: argc and the positional arguments
    stream,       \* the bytes the frame source will write before it exits
    exit_code,    \* the exit status the frame source will end with
    mpc,          \* main's position: parse, encode, audio, pdf, exit
    status,       \* process exit status: -1 while running, 0 ok, 1 failure
    stages,       \* the stages main has entered so far, in order
    failed,       \* the stage whose error main propagated ("none" so far)
    args,         \* the tuple returned by parse_args
    vf,           \* what was requested from ffmpeg: fps, w, h
    epc,          \* position inside encode_video_blob_via_ffmpeg
    child,        \* none, running, exited (zombie), reaped
    written,      \* number of bytes of stream the child has written so far
    pipe,         \* bytes in the pipe between child and encoder
    stdout_open,  \* the encoder holds the read end of the pipe
    frame_buf,    \* frame_buf
    read_total,   \* read_total
    blob,         \* blob
    prev_packed,  \* prev_packed
    frame_count,  \* frame_count (u32)
    loop_exit,    \* how the frame loop ended: none, eof, bound
    enc_result,   \* none, ok, err_spawn, err_read, err_status
    ba_blob,      \* main's ba_blob
    au_raw,       \* main's au_raw
    doc,          \* the lopdf Document built by make_pdf
    artifact,     \* what was saved to out_pdf (<<>> when nothing was saved)
    pk_bits,      \* input of a stand-alone pack_bits call
    pk_out        \* its result

vars == <<argv, stream, exit_code, mpc, status, stages, failed, args, vf, epc, child,
          written, pipe, stdout_open, frame_buf, read_total, blob, prev_packed,
          frame_count, loop_exit, enc_result, ba_blob, au_raw, doc, artifact,
          pk_bits, pk_out>>

encVars == <<vf, epc, child, written, pipe, stdout_open, frame_buf, read_total,
             blob, prev_packed, frame_count, loop_exit, enc_result>>
inputVars == <<argv, stream, exit_code>>
pdfVars == <<au_raw, doc, artifact>>
packVars == <<pk_bits, pk_out>>

----------------------------------------------------------------------------
\* Bounds of the model.

\* longest video, in complete frames
MaxVideoFrames == 3
\* number of distinct test frames the frame source can emit
NumKinds == 2
\* capacity of the pipe between ffmpeg and the encoder, in bytes
PipeCap == 3
\* longest audio file, in bytes
MaxAudioLen == 1
\* longest bit sequence handed to a stand-alone pack_bits call
MaxBits == 10

----------------------------------------------------------------------------
\* Integer helpers.

Min(a, b) == IF a < b THEN a ELSE b

Max(a, b) == IF a > b THEN a ELSE b

U8 == 2 ^ 8

U16 == 2 ^ 16

\* bit k of x
BitAt(x, k) == (x \div (2 ^ k)) % 2

\* a ^ b on u8
XorByte(a, b) ==
    LET bit(k) == ((BitAt(a, k) + BitAt(b, k)) % 2) * (2 ^ k)
    IN  bit(0) + bit(1) + bit(2) + bit(3) + bit(4) + bit(5) + bit(6) + bit(7)

\* a | (1 << k) on u8
OrShl(a, k) == IF BitAt(a, k) = 1 THEN a ELSE a + 2 ^ k

\* x.to_le_bytes() for u16
U16LE(x) == <<x % U8, (x \div U8) % U8>>

\* x.to_le_bytes() for u32
U32LE(x) == <<x % U8, (x \div U8) % U8, (x \div (U8 * U8)) % U8,
              (x \div (U8 * U8 * U8)) % U8>>

\* vec![0u8; n]
Zeros(n) == [i \in 1..n |-> 0]

\* s[from..to] with 0-based, end-exclusive Rust bounds
Slice(s, from, to) == [i \in 1..(to - from) |-> s[from + i]]

----------------------------------------------------------------------------
\* pack_bits and xor_bytes_inplace.

\* the shift amount of bit i inside its byte: 7 - (i % 8)
BitPosLsbFirst(i) == i % 8

BitPos(i) == 7 - (i % 8)

\* the for loop of pack_bits from (0-based) index i on
RECURSIVE PackLoop(_, _, _)
PackLoop(out, bits01, i) ==
    IF i >= Len(bits01) THEN out
    ELSE PackLoop(IF bits01[i + 1] # 0
                  THEN [out EXCEPT ![(i \div 8) + 1] = OrShl(@, BitPos(i))]
                  ELSE out,
                  bits01, i + 1)

pack_bits(bits01) == PackLoop(Zeros((Len(bits01) + 7) \div 8), bits01, 0)

\* dst after the zip loop: only the common prefix is touched
xor_bytes_inplace(dst, src) ==
    [j \in 1..Len(dst) |-> IF j <= Len(src) THEN XorByte(dst[j], src[j]) ELSE dst[j]]

----------------------------------------------------------------------------
\* The frame source (ffmpeg) and the command line: the inputs of a run.

\* gray samples the test frames are made of: two mid grays, black, white
Palette == <<100, 101, 0, 255>>

\* sample i (0-based) of test frame kind k
Pixel(k, i) == Palette[((k + i) % Len(Palette)) + 1]

\* the raw bytes of a video: the frames of kinds ks, then tail samples of a
\* further frame that the source never completes
StreamOf(ks, tail, sz) ==
    [j \in 1..(Len(ks) * sz + tail) |->
        LET f == (j - 1) \div sz
            i == (j - 1) % sz
        IN  IF f < Len(ks) THEN Pixel(ks[f + 1], i) ELSE Pixel(f, i)]

Dims == {<<1, 1>>, <<2, 1>>, <<3, 3>>}

Thresholds == {0, 100, 255}

MaxFrameArgs == {0, 1, 2}

Kinds == 0..(NumKinds - 1)

KindSeqs == UNION {[1..n -> Kinds] : n \in 0..MaxVideoFrames}

Tails(sz) == {0, 1, sz - 1} \cap 0..(sz - 1)

\* frame rates in thousandths: negative, zero, tiny, 29.97, 30, near and
\* beyond the u16 limit
FpsInputs == {-1000, 0, 4, 5, 29970, 30000, 655345, 655355, 700000}

Cmd(argc, w, h, fps, threshold, mf) ==
    [argc |-> argc, w |-> w, h |-> h, fps |-> fps, threshold |-> threshold,
     mf |-> mf, start_url |-> "https://example.org/play.html"]

Run(cmd, ks, tail, ec) ==
    [argv |-> cmd, stream |-> StreamOf(ks, tail, cmd.w * cmd.h), exit_code |-> ec]

\* runs that vary the video, the geometry, the frame bound and the exit status
VideoRuns ==
    UNION {{Run(Cmd(10, d[1], d[2], 30000, 100, mf), ks, tail, ec) :
                mf \in MaxFrameArgs, ks \in KindSeqs,
                tail \in Tails(d[1] * d[2]), ec \in {0, 1}} : d \in Dims}

\* runs that vary the threshold
ThresholdRuns ==
    {Run(Cmd(10, 2, 1, 30000, t, 0), ks, 0, 0) : t \in Thresholds, ks \in KindSeqs}

\* runs that vary the frame rate over a fixed two-frame video
FpsRuns ==
    {Run(Cmd(10, 2, 1, f, 100, 0), <<0, 1>>, 0, 0) : f \in FpsInputs}

\* runs whose command line parse_args rejects
BadArgRuns ==
    {Run(c, <<>>, 0, 0) :
        c \in {Cmd(9, 2, 1, 30000, 100, 0), Cmd(10, 65536, 1, 30000, 100, 0),
               Cmd(10, 2, 65536, 30000, 100, 0), Cmd(10, 2, 1, 30000, 256, 0),
               Cmd(10, 2, 1, 30000, 100, -1)}}

Runs == VideoRuns \cup ThresholdRuns \cup FpsRuns \cup BadArgRuns

AudioInputs == UNION {[1..n -> {0, 255}] : n \in 0..MaxAudioLen}

----------------------------------------------------------------------------
\* parse_args.

\* str::parse::<uN>() succeeds exactly on 0..2^N-1
ParsesAs(v, limit) == v \in 0..(limit - 1)

\* str::parse::<u32>(): every integer of the model is below 2^32, so only the
\* sign decides. (fps is an f32: every number parses, so a malformed command
\* line is modelled by an out-of-range integer argument.)
ParsesAsU32(v) == v >= 0

ParseOk(a) ==
    /\ ~(a.argc < 10)
    /\ ParsesAs(a.w, U16)
    /\ ParsesAs(a.h, U16)
    /\ ParsesAs(a.threshold, U8)
    /\ ParsesAsU32(a.mf)

parse_args(a) ==
    [w |-> a.w, h |-> a.h, fps |-> a.fps, threshold |-> a.threshold,
     max_frames |-> IF a.mf = 0 THEN <<>> ELSE <<a.mf>>,
     start_url |-> a.start_url]

\* the ? operator in main: continue on Ok, return the error on Err
PropagateIgnoringErr(ok, next) == next

Propagate(ok, next) == IF ok THEN next ELSE "exit"

\* main enters a stage
Enter(stage) == stages' = Append(stages, stage)

\* a stage of main has returned Ok (ok) or Err: move on, or exit with the error
Return(stage, ok, next) ==
    /\ mpc' = Propagate(ok, next)
    /\ failed' = IF ok THEN failed ELSE stage
    /\ status' = IF Propagate(ok, next) = "exit" THEN (IF ok THEN 0 ELSE 1) ELSE status

ParseArgs ==
    /\ mpc = "parse"
    /\ Enter("parse")
    /\ Return("parse", ParseOk(argv), "encode")
    /\ args' = IF ParseOk(argv) THEN parse_args(argv) ELSE args
    /\ UNCHANGED <<inputVars, encVars, ba_blob, pdfVars, packVars>>

----------------------------------------------------------------------------
\* encode_video_blob_via_ffmpeg and the ffmpeg child.

\* n / d rounded to nearest, halves away from zero (f32::round), d > 0
RoundDiv(n, d) ==
    IF n >= 0 THEN (2 * n + d) \div (2 * d) ELSE -((2 * (-n) + d) \div (2 * d))

Clamp(x, lo, hi) == Max(lo, Min(x, hi))

\* the rate put in the -vf filter: fps, or "30" when fps is not positive
FpsStr(fps) == IF fps > 0 THEN fps ELSE 30 * 1000

\* (fps * 100.0).round().clamp(1.0, 65535.0) as u16, fps in thousandths
FpsX100(fps) == Clamp(RoundDiv(fps, 10), 1, U16 - 1)

FrameSz == args.w * args.h

PackedLen(sz) == (sz + 7) \div 8

Header(w, h, fps) == U16LE(w) \o U16LE(h) \o U16LE(FpsX100(fps)) \o U32LE(0)

\* if let Some(m) = max_frames { if frame_count >= m { break } }
BoundReachedOffByOne(max_frames, fc) == max_frames # <<>> /\ fc > max_frames[1]

BoundReached(max_frames, fc) == max_frames # <<>> /\ fc >= max_frames[1]

\* n == 0 after stdout.read
IsEofOrShort(n) == n <= 1

IsEof(n) == n = 0

\* read_total after the EOF branch: read_total = 0
EofReadTotalKept(rt) == rt

EofReadTotal(rt) == 0

\* bits01[i] = if px <= threshold { 1 } else { 0 }
Threshold(buf, threshold) == [i \in 1..Len(buf) |-> IF buf[i] <= threshold THEN 1 ELSE 0]

\* what prev_packed.copy_from_slice(..) stores after a frame
NextPrevDiff(packed, diff) == diff

NextPrev(packed, diff) == packed

\* lines 103-121: threshold, pack, delta-encode and append one frame held in buf
ProcessFrame(buf) ==
    LET packed == pack_bits(Threshold(buf, args.threshold))
        diff == xor_bytes_inplace(prev_packed, packed)
    IN  /\ blob' = blob \o (IF frame_count = 0 THEN packed ELSE diff)
        /\ prev_packed' = IF frame_count = 0 THEN packed ELSE NextPrev(packed, diff)
        /\ frame_count' = frame_count + 1   \* u32; the model stays far below 2^32

\* lines 38-79: spawn ffmpeg, take its stdout, write the header
EncodeSpawn ==
    /\ mpc = "encode" /\ epc = "spawn"
    /\ Enter("encode")
    /\ \/ /\ enc_result' = "err_spawn"
          /\ epc' = "done"
          /\ Return("encode", FALSE, "audio")
          /\ UNCHANGED <<vf, child, stdout_open, frame_buf, blob, prev_packed, frame_count>>
       \/ /\ vf' = [fps |-> FpsStr(args.fps), w |-> args.w, h |-> args.h]
          /\ child' = "running"
          /\ stdout_open' = TRUE
          /\ frame_buf' = Zeros(FrameSz)
          /\ blob' = Header(args.w, args.h, args.fps)
          /\ prev_packed' = Zeros(PackedLen(FrameSz))
          /\ frame_count' = 0
          /\ epc' = "loop"
          /\ UNCHANGED <<mpc, failed, status, enc_result>>
    /\ UNCHANGED <<inputVars, args, written, pipe, read_total, loop_exit, ba_blob,
                   pdfVars, packVars>>

\* lines 81-90: top of the frame loop
EncodeLoopTop ==
    /\ mpc = "encode" /\ epc = "loop"
    /\ IF BoundReached(args.max_frames, frame_count)
       THEN epc' = "wait" /\ loop_exit' = "bound" /\ UNCHANGED read_total
       ELSE /\ read_total' = 0
            /\ IF 0 < FrameSz
               THEN epc' = "read" /\ UNCHANGED loop_exit
               ELSE epc' = "wait" /\ loop_exit' = "eof"
    /\ UNCHANGED <<inputVars, mpc, status, stages, failed, args, vf, child, written,
                   pipe, stdout_open, frame_buf, blob, prev_packed, frame_count,
                   enc_result, ba_blob, pdfVars, packVars>>

\* what one blocking stdout.read(&mut frame_buf[read_total..]) can return
ReadReturns ==
    IF Len(pipe) > 0 THEN 1..Min(Len(pipe), FrameSz - read_total)
    ELSE IF child # "running" THEN {0}
    ELSE {}

\* lines 90-122: one read call and what follows it up to the next read
EncodeRead ==
    /\ mpc = "encode" /\ epc = "read"
    /\ \/ \E n \in ReadReturns :
            LET rt == IF IsEof(n) THEN EofReadTotal(read_total) ELSE read_total + n
                buf == [i \in 1..Len(frame_buf) |->
                          IF i > read_total /\ i <= read_total + n
                          THEN pipe[i - read_total] ELSE frame_buf[i]]
            IN  /\ pipe' = SubSeq(pipe, n + 1, Len(pipe))
                /\ frame_buf' = buf
                /\ read_total' = rt
                /\ IF ~IsEof(n) /\ rt < FrameSz
                   THEN epc' = "read" /\ UNCHANGED <<blob, prev_packed, frame_count, loop_exit>>
                   ELSE IF rt = 0
                   THEN /\ epc' = "wait" /\ loop_exit' = "eof"
                        /\ UNCHANGED <<blob, prev_packed, frame_count>>
                   ELSE epc' = "loop" /\ ProcessFrame(buf) /\ UNCHANGED loop_exit
                /\ UNCHANGED <<mpc, status, failed, stdout_open, enc_result>>
       \/ /\ enc_result' = "err_read"
          /\ epc' = "done"
          /\ stdout_open' = FALSE
          /\ Return("encode", FALSE, "audio")
          /\ UNCHANGED <<pipe, frame_buf, read_total, blob, prev_packed, frame_count,
                         loop_exit>>
    /\ UNCHANGED <<inputVars, stages, args, vf, child, written, ba_blob, pdfVars, packVars>>

\* lines 124-133: wait for ffmpeg, check its status, patch frame_count.
\* child.wait() blocks until the child has exited; stdout, taken on line 63,
\* stays open until the function returns and drops it.
EncodeWait ==
    /\ mpc = "encode" /\ epc = "wait"
    /\ child = "exited"
    /\ child' = "reaped"
    /\ epc' = "done"
    /\ stdout_open' = FALSE
    /\ IF exit_code = 0
       THEN /\ blob' = [i \in 1..Len(blob) |->
                          IF i \in 7..10 THEN U32LE(frame_count)[i - 6] ELSE blob[i]]
            /\ ba_blob' = blob'
            /\ enc_result' = "ok"
            /\ Return("encode", TRUE, "audio")
       ELSE /\ enc_result' = "err_status"
            /\ Return("encode", FALSE, "audio")
            /\ UNCHANGED <<blob, ba_blob>>
    /\ UNCHANGED <<inputVars, stages, args, vf, written, pipe, frame_buf, read_total,
                   prev_packed, frame_count, loop_exit, pdfVars, packVars>>

\* ffmpeg writes the next byte of its output; it blocks while the pipe is full
ChildWrite ==
    /\ mpc = "encode" /\ child = "running"
    /\ written < Len(stream)
    /\ Len(pipe) < PipeCap
    /\ pipe' = Append(pipe, stream[written + 1])
    /\ written' = written + 1
    /\ UNCHANGED <<inputVars, mpc, status, stages, failed, args, vf, epc, child,
                   stdout_open, frame_buf, read_total, blob, prev_packed, frame_count,
                   loop_exit, enc_result, ba_blob, pdfVars, packVars>>

\* ffmpeg has written everything and exits, which closes the write end
ChildExit ==
    /\ mpc = "encode" /\ child = "running"
    /\ written = Len(stream)
    /\ child' = "exited"
    /\ UNCHANGED <<inputVars, mpc, status, stages, failed, args, vf, epc, written, pipe,
                   stdout_open, frame_buf, read_total, blob, prev_packed, frame_count,
                   loop_exit, enc_result, ba_blob, pdfVars, packVars>>

----------------------------------------------------------------------------
\* fs::read(&audio) and make_pdf.

\* lines 333-335: read the audio file whole, or fail
ReadAudio ==
    /\ mpc = "audio"
    /\ Enter("audio")
    /\ \/ \E a \in AudioInputs : au_raw' = a /\ Return("audio", TRUE, "pdf")
       \/ UNCHANGED au_raw /\ Return("audio", FALSE, "pdf")
    /\ UNCHANGED <<inputVars, args, encVars, ba_blob, doc, artifact, packVars>>

\* Object::Reference((id, 0))
Ref(id) == [ref |-> id]

\* Document::with_version("1.7")
EmptyDocument == [version |-> "1.7", max_id |-> 0, objects |-> <<>>, trailer |-> <<>>]

\* doc.new_object_id(): the id it returns, and the document afterwards
NewId(d) == d.max_id + 1

Alloc(d) == [d EXCEPT !.max_id = @ + 1]

\* doc.objects.insert(id, obj)
Insert(d, id, obj) == [d EXCEPT !.objects = (id :> obj) @@ @]

\* add_attachment: the document afterwards and the filespec id returned
add_attachment(d, name, data, mime) ==
    LET ef_id == NewId(d)
        d1 == Insert(Alloc(d), ef_id,
                     [Type |-> "EmbeddedFile", Subtype |-> mime, Length |-> Len(data),
                      content |-> data])
        filespec_id == NewId(d1)
        d2 == Insert(Alloc(d1), filespec_id,
                     [Type |-> "Filespec", F |-> name, UF |-> name, EF |-> [F |-> Ref(ef_id)]])
    IN  [doc |-> d2, id |-> filespec_id]

\* the Names array of the EmbeddedFiles name tree (lines 190-195)
EmbeddedFilesNamesSwapped(ba_filespec_id, au_filespec_id) ==
    <<"AU.ogg", Ref(ba_filespec_id), "BA.bin", Ref(au_filespec_id)>>

EmbeddedFilesNames(ba_filespec_id, au_filespec_id) ==
    <<"AU.ogg", Ref(au_filespec_id), "BA.bin", Ref(ba_filespec_id)>>

\* the page content stream (lines 212-238), x1 y1 w h = 156 360 300 100
PageContent ==
    "q 0.9 g 156 360 300 100 re f 0 g 2 w 156 360 300 100 re S BT /F1 36 Tf 236 395 Td (START) Tj ET Q"

\* the document make_pdf has built when it calls doc.save (lines 166-296)
make_pdf(start_url, ba_raw, au_raw_) ==
    LET d0 == EmptyDocument
        catalog_id == NewId(d0)
        d1 == Alloc(d0)
        pages_id == NewId(d1)
        d2 == Alloc(d1)
        page_id == NewId(d2)
        d3 == Alloc(d2)
        font_id == NewId(d3)
        d4 == Insert(Alloc(d3), font_id,
                     [Type |-> "Font", Subtype |-> "Type1", BaseFont |-> "Helvetica"])
        ba == add_attachment(d4, "BA.bin", ba_raw, "application/octet-stream")
        au == add_attachment(ba.doc, "AU.ogg", au_raw_, "audio/ogg")
        names_id == NewId(au.doc)
        d5 == Insert(Alloc(au.doc), names_id,
                     [EmbeddedFiles |-> [Names |-> EmbeddedFilesNames(ba.id, au.id)]])
        contents_id == NewId(d5)
        d6 == Insert(Alloc(d5), contents_id,
                     [Length |-> 0, content |-> PageContent])
        annot_id == NewId(d6)
        d7 == Insert(Alloc(d6), annot_id,
                     [Type |-> "Annot", Subtype |-> "Link", Rect |-> <<156, 360, 456, 460>>,
                      Border |-> <<0, 0, 0>>, A |-> [S |-> "URI", URI |-> start_url]])
        d8 == Insert(d7, page_id,
                     [Type |-> "Page", Parent |-> Ref(pages_id),
                      MediaBox |-> <<0, 0, 612, 792>>,
                      Resources |-> [Font |-> [F1 |-> Ref(font_id)]],
                      Contents |-> Ref(contents_id), Annots |-> <<Ref(annot_id)>>])
        d9 == Insert(d8, pages_id,
                     [Type |-> "Pages", Kids |-> <<Ref(page_id)>>, Count |-> 1])
        d10 == Insert(d9, catalog_id,
                      [Type |-> "Catalog", Pages |-> Ref(pages_id), Names |-> Ref(names_id),
                       AF |-> <<Ref(ba.id), Ref(au.id)>>])
    IN  [d10 EXCEPT !.trailer = [Root |-> Ref(catalog_id)]]

\* lines 337-344: build the document and save it; main returns what save returns
MakePdf ==
    /\ mpc = "pdf"
    /\ Enter("pdf")
    /\ doc' = make_pdf(args.start_url, ba_blob, au_raw)
    /\ \/ artifact' = doc' /\ Return("pdf", TRUE, "exit")
       \/ UNCHANGED artifact /\ Return("pdf", FALSE, "exit")
    /\ UNCHANGED <<inputVars, args, encVars, ba_blob, au_raw, packVars>>

----------------------------------------------------------------------------
\* A stand-alone call of pack_bits.

PackCall ==
    /\ pk_out = <<"none">>
    /\ pk_out' = <<"some", pack_bits(pk_bits)>>
    /\ UNCHANGED <<inputVars, mpc, status, stages, failed, args, encVars, ba_blob,
                   pdfVars, pk_bits>>

----------------------------------------------------------------------------
\* Specifications.

\* the state of the process before main runs, for the inputs of run r
Start(r) ==
    /\ argv = r.argv /\ stream = r.stream /\ exit_code = r.exit_code
    /\ status = -1 /\ stages = <<>> /\ failed = "none" /\ args = <<>>
    /\ vf = <<>> /\ epc = "spawn" /\ child = "none" /\ written = 0 /\ pipe = <<>>
    /\ stdout_open = FALSE /\ frame_buf = <<>> /\ read_total = 0 /\ blob = <<>>
    /\ prev_packed = <<>> /\ frame_count = 0 /\ loop_exit = "none"
    /\ enc_result = "none" /\ ba_blob = <<>> /\ au_raw = <<>> /\ doc = <<>>
    /\ artifact = <<>>

Init ==
    /\ \E r \in Runs : Start(r)
    /\ mpc = "parse"
    /\ pk_bits = <<>> /\ pk_out = <<>>

Next ==
    \/ ParseArgs
    \/ EncodeSpawn
    \/ EncodeLoopTop
    \/ EncodeRead
    \/ EncodeWait
    \/ ChildWrite
    \/ ChildExit
    \/ ReadAudio
    \/ MakePdf

Spec == Init /\ [][Next]_vars

BitSeqs == UNION {[1..n -> {0, 1}] : n \in 0..MaxBits}

InitPack ==
    /\ Start(Run(Cmd(10, 1, 1, 30000, 0, 0), <<>>, 0, 0))
    /\ mpc = "idle"
    /\ pk_bits \in BitSeqs /\ pk_out = <<"none">>

NextPack == PackCall

SpecPack == InitPack /\ [][NextPack]_vars

----------------------------------------------------------------------------
\* Vocabulary of the properties.

\* ceil(n / 8)
Ceil8(n) == IF n % 8 = 0 THEN n \div 8 ELSE (n \div 8) + 1

\* the little-endian number held in the byte string b
RECURSIVE FromLE(_)
FromLE(b) == IF b = <<>> THEN 0 ELSE b[1] + U8 * FromLE(Tail(b))

\* the encoder has spawned its frame source
Spawned == child # "none"

\* the complete frames in the byte stream the frame source delivers
TotalFrames == Len(stream) \div FrameSz

\* the frames a successful encode has to hold
ExpectedFrames ==
    IF argv.mf = 0 THEN TotalFrames ELSE Min(argv.mf, TotalFrames)

\* complete frame i (0-based) of the delivered stream, thresholded and packed
P(i) == pack_bits(Threshold(Slice(stream, i * FrameSz, (i + 1) * FrameSz), args.threshold))

\* the body of a blob, and its i-th (0-based) frame-sized piece
Body(b) == Slice(b, 10, Len(b))

Piece(b, i) == Slice(Body(b), i * Ceil8(FrameSz), (i + 1) * Ceil8(FrameSz))

\* bytewise XOR of two equally long byte strings
XorFrames(a, b) == [j \in 1..Len(a) |-> XorByte(a[j], b[j])]

\* what a decoder recovers for frame i: frame[0] = body[0],
\* frame[i] = frame[i-1] XOR body[i]
RECURSIVE Decoded(_, _)
Decoded(b, i) == IF i = 0 THEN Piece(b, 0) ELSE XorFrames(Decoded(b, i - 1), Piece(b, i))

\* bit i (0-based) of a packed buffer under the MSB-first mapping
UnpackBit(out, i) == BitAt(out[(i \div 8) + 1], 7 - (i % 8))

Unpack(out, n) == [i \in 1..n |-> UnpackBit(out, i - 1)]

\* the reference that follows key in a flat name array <<key, ref, key, ref, ...>>
NameLookup(names, key) ==
    LET i == CHOOSE i \in 1..(Len(names) \div 2) : names[2 * i - 1] = key
    IN  names[2 * i].ref

HasName(names, key) == \E i \in 1..(Len(names) \div 2) : names[2 * i - 1] = key

StageOrder == <<"parse", "encode", "audio", "pdf">>

----------------------------------------------------------------------------
\* Properties.

\* C1: a blob returned by a successful encode has a header frame_count equal
\* to the number of frames appended, a body of exactly frame_count *
\* ceil(w*h/8) bytes, and frame_count equal to the number of complete frames
\* delivered (capped by the max-frame bound); a trailing partial frame is not
\* counted, adds no byte and is no error.
C1_BlobCountsCompleteFrames ==
    enc_result = "ok" =>
        /\ FromLE(Slice(ba_blob, 6, 10)) = frame_count
        /\ Len(Body(ba_blob)) = frame_count * Ceil8(FrameSz)
        /\ frame_count = ExpectedFrames

\* C1 witness: a successful unbounded encode of two or more frames followed
\* by a partial frame
C1_Witness ==
    /\ enc_result = "ok"
    /\ argv.mf = 0
    /\ frame_count >= 2
    /\ Len(stream) % FrameSz # 0
    /\ FrameSz > 8

\* C2: the body is P0 followed by P(i-1) XOR P(i), the running state is the
\* last raw packed frame, and XOR-accumulating the body recovers P0..Pk.
C2_DeltaRoundTrip ==
    Spawned =>
        /\ Len(Body(blob)) = frame_count * Ceil8(FrameSz)
        /\ frame_count > 0 => Piece(blob, 0) = P(0)
        /\ \A i \in 1..(frame_count - 1) : Piece(blob, i) = XorFrames(P(i - 1), P(i))
        /\ frame_count > 0 => prev_packed = P(frame_count - 1)
        /\ \A i \in 0..(frame_count - 1) : Decoded(blob, i) = P(i)

\* C2 witness: three frames encoded, the last two diffs not zero
C2_Witness ==
    /\ Spawned
    /\ frame_count = 3
    /\ P(0) # P(1) /\ P(1) # P(2)
    /\ Piece(blob, 2) # P(2)

\* C3: pack_bits returns ceil(n/8) bytes, bit i in byte i/8 at position
\* 7 - (i mod 8), padding bits 0, and unpacking with length n gives the input.
C3_PackBits ==
    pk_out[1] = "some" =>
        LET out == pk_out[2]
            n == Len(pk_bits)
        IN  /\ Len(out) = Ceil8(n)
            /\ \A i \in 0..(n - 1) : UnpackBit(out, i) = pk_bits[i + 1]
            /\ \A i \in n..(8 * Len(out) - 1) : UnpackBit(out, i) = 0
            /\ \A j \in 1..Len(out) : out[j] \in 0..(U8 - 1)
            /\ Unpack(out, n) = pk_bits

\* C3 witness: a packed sequence that ends inside its second byte with a 1
C3_Witness ==
    /\ pk_out[1] = "some"
    /\ Len(pk_bits) > 8 /\ Len(pk_bits) % 8 # 0
    /\ pk_bits[Len(pk_bits)] = 1 /\ pk_bits[1] = 0 /\ pk_bits[2] = 1

\* C4: a non-positive rate is replaced by 30.0 before the header conversion,
\* so the fps field holds 3000, the rate requested from the frame source; a
\* positive rate gives rate x 100 rounded and clamped to [1, 65535].
C4_FpsField ==
    Spawned =>
        /\ FromLE(Slice(blob, 4, 6)) =
              IF args.fps <= 0 THEN 3000 ELSE Clamp(RoundDiv(args.fps, 10), 1, 65535)
        /\ FromLE(Slice(blob, 4, 6)) = Clamp(RoundDiv(vf.fps, 10), 1, 65535)

\* C5: with a bound M > 0 the frame count never exceeds M, no read is issued
\* once M frames are encoded, and a successful encode holds min(M, complete
\* frames delivered) frames; with 0 every complete frame delivered is encoded.
C5_MaxFrames ==
    Spawned =>
        /\ argv.mf > 0 => frame_count <= argv.mf
        /\ (argv.mf > 0 /\ frame_count >= argv.mf) => epc # "read"
        /\ (enc_result = "ok" /\ argv.mf > 0) => frame_count = Min(argv.mf, TotalFrames)
        /\ (enc_result = "ok" /\ argv.mf = 0) => frame_count = TotalFrames

\* C5 witness: a successful encode stopped by the bound with a frame left over
C5_Witness ==
    /\ enc_result = "ok"
    /\ argv.mf = 2
    /\ frame_count = 2
    /\ TotalFrames = 3

\* C6 as stated: when a non-zero exit is reported no delivered frame is still
\* unread and every complete frame the source delivered is in the blob.
C6_AllDeliveredFramesAppended ==
    enc_result = "err_status" =>
        /\ loop_exit # "none"
        /\ Len(pipe) < FrameSz
        /\ frame_count = written \div FrameSz

\* C6 amended: the exit status is examined only after the frame loop ended;
\* when a non-zero exit is reported after end-of-stream every complete frame
\* delivered is in the blob and nothing is unread, and when it is reported
\* after the max-frame bound the blob holds exactly the bound's frames.
C6_StatusAfterLoop ==
    /\ child = "reaped" => loop_exit \in {"eof", "bound"}
    /\ enc_result = "err_status" =>
          /\ child = "reaped"
          /\ written = Len(stream)
          /\ loop_exit = "eof" => (pipe = <<>> /\ frame_count = written \div FrameSz)
          /\ loop_exit = "bound" => frame_count = argv.mf

\* C6 witness: a non-zero exit reported after end-of-stream behind three frames
C6_Witness ==
    /\ enc_result = "err_status"
    /\ loop_exit = "eof"
    /\ frame_count = 3

\* C7: from the catalog, the named-attachments collection maps "BA.bin" to a
\* filespec whose embedded stream is the blob and "AU.ogg" to one whose
\* embedded stream is the audio, each key to its own filespec, and the
\* associated-files array references exactly these two filespecs.
C7_Attachments ==
    doc # <<>> =>
        LET obj == doc.objects
            catalog == obj[doc.trailer.Root.ref]
            names == obj[catalog.Names.ref].EmbeddedFiles.Names
            ba_fs == NameLookup(names, "BA.bin")
            au_fs == NameLookup(names, "AU.ogg")
        IN  /\ HasName(names, "BA.bin") /\ HasName(names, "AU.ogg")
            /\ Len(names) = 4
            /\ ba_fs # au_fs
            /\ obj[ba_fs].F = "BA.bin" /\ obj[ba_fs].UF = "BA.bin"
            /\ obj[au_fs].F = "AU.ogg" /\ obj[au_fs].UF = "AU.ogg"
            /\ obj[obj[ba_fs].EF.F.ref].content = ba_blob
            /\ obj[obj[au_fs].EF.F.ref].content = au_raw
            /\ {catalog.AF[i].ref : i \in 1..Len(catalog.AF)} = {ba_fs, au_fs}
            /\ Len(catalog.AF) = 2

\* C7 witness: a saved document carrying a blob with frames and a non-empty audio
C7_Witness ==
    /\ artifact # <<>>
    /\ artifact = doc
    /\ Len(ba_blob) > 10
    /\ Len(au_raw) > 0

\* C8: the stages run in the order parse, encode, audio, pdf, each at most
\* once; a failing stage ends the run with a non-zero status and no later
\* stage runs, so the artifact is written only when all stages before it
\* succeeded.
C8_Pipeline ==
    /\ Len(stages) <= Len(StageOrder)
    /\ stages = SubSeq(StageOrder, 1, Len(stages))
    /\ failed # "none" =>
          /\ mpc = "exit" /\ status = 1
          /\ stages # <<>> /\ stages[Len(stages)] = failed
    /\ mpc = "exit" => (status = 0 <=> failed = "none")
    /\ mpc # "exit" => status = -1
    /\ artifact # <<>> =>
          /\ stages = StageOrder
          /\ failed = "none"
          /\ ParseOk(argv) /\ enc_result = "ok"

\* C8 witness: the audio read failed after a successful encode and the run
\* ended there
C8_Witness ==
    /\ mpc = "exit"
    /\ failed = "audio"
    /\ stages = <<"parse", "encode", "audio">>
    /\ artifact = <<>>

\* C9: the encode operation always returns; in particular its wait for the
\* source process never blocks forever on a producer blocked on the full
\* pipe. A state inside encode in which no step is possible is such a wait.
C9_EncodeNeverStuck == mpc = "encode" => ENABLED Next

\* C10: whenever the encode operation has returned after spawning the source,
\* the source has been waited on and its output stream is closed.
C10_ReapedOnReturn ==
    (epc = "done" /\ Spawned) => (child = "reaped" /\ ~stdout_open)

====
